---- MODULE Spec2Model ----
(***************************************************************************)
(* Model of the Twitter glasses app (src/index.ts): the text chunker       *)
(* chunkText and the paged, auto-advancing presentation of the chunks      *)
(* driven by voice commands, timers and profile lookups.                   *)
(*                                                                         *)
(* Two machines share the module.  SpecChunk runs chunkText's loop on an   *)
(* input drawn from bounded sets; Spec runs the app's event handlers.      *)
(* Strings are sequences of one-character strings, so that includes,       *)
(* lastIndexOf and substring are computed and not assumed.                 *)
(***************************************************************************)
EXTENDS Integers, Sequences, FiniteSets, Bags, TLC

\* ------------------------------------------------------------------ bounds

\* Longest generated input text of chunkText.
MaxTextLen == 5
\* Largest generated maxLength argument of chunkText.
MaxChunkLen == 4
\* Iterations of chunkText's loop that are followed before the run is cut.
MaxIter == 6
\* Most setTimeout callbacks pending at once.
MaxTimers == 2
\* Most profile fetches in flight at once.
MaxFetches == 1
\* Most chunks a profile is split into.
MaxChunks == 2
\* Most 500 ms steps the reading speed is taken away from its default.
MaxSpeedSteps == 1

\* --------------------------------------------------------------- variables

VARIABLES
    \* chunkText's locals (src/index.ts:487-529)
    text, maxLength, overlap, startPos, chunks, spans, cpc,
    \* TwitterGlassesApp's fields (src/index.ts:8-21)
    isDisplayingTwitterInfo, twitterChunks, currentChunkIndex,
    autoAdvanceTimer, isAutoAdvancing, readingSpeed, overlapTime,
    pendingUsername, isAwaitingConfirmation, confirmationTimeout,
    \* the event loop: open sessions, pending setTimeout callbacks, profile
    \* fetches in flight
    open, timers, fetches,
    \* what the last handler was and what it showed on the glasses
    event, out,
    \* history: a stop command was given and no start was requested since;
    \* how far the run follows "one load, start, stop"; the username of
    \* the lookup that was requested last
    userStopped, phase, latest,
    \* runPythonAgent (src/twitterAgent.ts:153-247): its promise, the
    \* python process and the pending 120 s timeout
    promise, proc, processTimeout

chunkVars == <<text, maxLength, overlap, startPos, chunks, spans, cpc>>

appVars ==
    <<isDisplayingTwitterInfo, twitterChunks, currentChunkIndex,
      autoAdvanceTimer, isAutoAdvancing, readingSpeed, overlapTime,
      pendingUsername, isAwaitingConfirmation, confirmationTimeout,
      open, timers, fetches, event, out, userStopped, phase, latest>>

agentVars == <<promise, proc, processTimeout>>

vars == <<chunkVars, appVars, agentVars>>

\* ----------------------------------------------------------------- helpers

Min(a, b) == IF a < b THEN a ELSE b

Max(a, b) == IF a > b THEN a ELSE b

SetMax(S) == CHOOSE x \in S : \A y \in S : y <= x

\* String.prototype.lastIndexOf(pat, from): the largest index i <= from
\* (from clamped to 0..length) at which pat occurs, or -1.
LastIndexOf(t, pat, from) ==
    LET lim  == Min(Min(Max(from, 0), Len(t)), Len(t) - Len(pat))
        hits == {i \in 0..lim : SubSeq(t, i + 1, i + Len(pat)) = pat}
    IN  IF hits = {} THEN -1 ELSE SetMax(hits)

\* String.prototype.substring(s, e): both clamped to 0..length, swapped when
\* s > e.
Substring(t, s, e) ==
    LET cs == Min(Max(s, 0), Len(t))
        ce == Min(Max(e, 0), Len(t))
    IN  SubSeq(t, Min(cs, ce) + 1, Max(cs, ce))

\* ----------------------------------------------------------------- chunkText

\* while (startPos < text.length)
LoopCondOffByOne(t, sp) == sp <= Len(t)

LoopCond(t, sp) == sp < Len(t)

\* pos > minBreakPos, minBreakPos = startPos + maxLength / 2 (a fraction for
\* odd maxLength: compared doubled).
AboveMinBreak(pos, sp, ml) == 2 * pos > 2 * sp + ml

\* Math.max of the three sentence-break candidates, -1 when none qualifies.
BreakPos(t, sp, ml, endPos) ==
    LET periodPos      == LastIndexOf(t, <<".", " ">>, endPos)
        questionPos    == LastIndexOf(t, <<"?", " ">>, endPos)
        exclamationPos == LastIndexOf(t, <<"!", " ">>, endPos)
        c1 == IF AboveMinBreak(periodPos, sp, ml) THEN periodPos + 2 ELSE -1
        c2 == IF AboveMinBreak(questionPos, sp, ml) THEN questionPos + 2 ELSE -1
        c3 == IF AboveMinBreak(exclamationPos, sp, ml)
              THEN exclamationPos + 2 ELSE -1
    IN  Max(c1, Max(c2, c3))

\* The end position of the chunk that starts at sp: one pass of the loop
\* body up to chunks.push.
ChunkEnd(t, sp, ml) ==
    LET endPos == Min(sp + ml, Len(t))
    IN  IF endPos < Len(t)
        THEN LET breakPos == BreakPos(t, sp, ml, endPos)
                 spacePos == LastIndexOf(t, <<" ">>, endPos)
             IN  IF breakPos # -1 THEN breakPos
                 ELSE IF AboveMinBreak(spacePos, sp, ml) THEN spacePos + 1
                 ELSE endPos
        ELSE endPos

\* startPos = endPos - overlap
NextStartAdds(endPos, ov) == endPos + ov

NextStart(endPos, ov) == endPos - ov

Alphabet == {"a", " ", "."}

Texts == UNION {[1..n -> Alphabet] : n \in 0..MaxTextLen}

Configs == (0..MaxChunkLen) \X (-1..(MaxChunkLen - 1))

RegressionText == <<"A", ".", " ", "B", ".", " ", "C", ".">>

ScenarioText ==
    <<"O", "n", "e", ".", " ", "T", "w", "o", ".", " ",
      "T", "h", "r", "e", "e", ".", " ", "F", "o", "u", "r", ".">>

MarksText == <<"a", "a", "?", " ", "a", "!", " ", "a", "a">>

\* A space just past the middle of the first maxLength = 7 characters.
WordsText ==
    <<"a", "a", "a", "a", " ", "a", "a", "a", "a", "a", "a", "a">>

\* Calls beside the generated ones: the spec's examples, the production
\* configuration on the empty text, a text with "? " and "! ", and a large
\* overlap on a text of two words.
ExtraCalls ==
    { <<RegressionText, 4, 2>>, <<RegressionText, 4, 0>>,
      <<ScenarioText, 10, 3>>, <<ScenarioText, 10, 0>>,
      <<MarksText, 4, 0>>, <<MarksText, 3, 1>>, <<MarksText, 4, 1>>,
      <<WordsText, 7, 6>>,
      <<<<>>, 500, 200>> }

Calls == {<<t, c[1], c[2]>> : t \in Texts, c \in Configs} \cup ExtraCalls

\* ------------------------------------------------------------------ strings

\* String.prototype.includes
Includes(t, pat) ==
    \E i \in 0..(Len(t) - Len(pat)) : SubSeq(t, i + 1, i + Len(pat)) = pat

\* String.prototype.startsWith
StartsWith(t, pat) == Len(t) >= Len(pat) /\ SubSeq(t, 1, Len(pat)) = pat

\* String.prototype.toLowerCase, on the capitals the utterances use.
LowerChar(c) ==
    CASE c = "T" -> "t"
      [] c = "Y" -> "y"
      [] OTHER -> c

ToLowerCase(t) == [i \in 1..Len(t) |-> LowerChar(t[i])]

\* String.prototype.trim
RECURSIVE TrimLeft(_)
TrimLeft(t) ==
    IF t # <<>> /\ Head(t) = " " THEN TrimLeft(Tail(t)) ELSE t

RECURSIVE TrimRight(_)
TrimRight(t) ==
    IF t # <<>> /\ t[Len(t)] = " "
    THEN TrimRight(SubSeq(t, 1, Len(t) - 1)) ELSE t

Trim(t) == TrimRight(TrimLeft(t))

\* text.replace(/pat/gi, ""), pat a literal, on lower-case text: every
\* occurrence removed, left to right.
RECURSIVE RemoveAll(_, _)
RemoveAll(t, pat) ==
    IF Len(t) < Len(pat) \/ pat = <<>> THEN t
    ELSE IF SubSeq(t, 1, Len(pat)) = pat
         THEN RemoveAll(SubSeq(t, Len(pat) + 1, Len(t)), pat)
         ELSE <<Head(t)>> \o RemoveAll(Tail(t), pat)

\* text.replace(/.*pat/gi, ""): the greedy prefix up to the last occurrence
\* of pat is removed.
RemoveThrough(t, pat) ==
    LET i == LastIndexOf(t, pat, Len(t))
    IN  IF i = -1 THEN t ELSE SubSeq(t, i + Len(pat) + 1, Len(t))

\* text.replace(/.*a.*b/gi, ""): removed up to the last b that has an a
\* before it.
RemoveThroughPair(t, a, b) ==
    LET ends == {j \in 0..(Len(t) - Len(b)) :
                    /\ SubSeq(t, j + 1, j + Len(b)) = b
                    /\ \E i \in 0..(j - Len(a)) :
                          SubSeq(t, i + 1, i + Len(a)) = a}
    IN  IF ends = {} THEN t
        ELSE SubSeq(t, SetMax(ends) + Len(b) + 1, Len(t))

\* The substrings the transcription handler looks for.
Kw ==
    [ yes |-> <<"y", "e", "s">>,
      correct |-> <<"c", "o", "r", "r", "e", "c", "t">>,
      right |-> <<"r", "i", "g", "h", "t">>,
      confirm |-> <<"c", "o", "n", "f", "i", "r", "m">>,
      no |-> <<"n", "o">>,
      wrong |-> <<"w", "r", "o", "n", "g">>,
      incorrect |-> <<"i", "n", "c", "o", "r", "r", "e", "c", "t">>,
      cancel |-> <<"c", "a", "n", "c", "e", "l">>,
      twitter_profile |->
        <<"t", "w", "i", "t", "t", "e", "r", " ",
          "p", "r", "o", "f", "i", "l", "e">>,
      get_twitter_info |->
        <<"g", "e", "t", " ", "t", "w", "i", "t", "t", "e", "r", " ",
          "i", "n", "f", "o">>,
      cancel_lookup |->
        <<"c", "a", "n", "c", "e", "l", " ", "l", "o", "o", "k", "u", "p">>,
      stop_confirmation |->
        <<"s", "t", "o", "p", " ",
          "c", "o", "n", "f", "i", "r", "m", "a", "t", "i", "o", "n">>,
      twitter |-> <<"t", "w", "i", "t", "t", "e", "r">>,
      profile |-> <<"p", "r", "o", "f", "i", "l", "e">>,
      get_info |-> <<"g", "e", "t", " ", "i", "n", "f", "o">>,
      look_up |-> <<"l", "o", "o", "k", " ", "u", "p">>,
      look_up_sp |-> <<"l", "o", "o", "k", " ", "u", "p", " ">>,
      lookup |-> <<"l", "o", "o", "k", "u", "p">>,
      get |-> <<"g", "e", "t">>,
      info |-> <<"i", "n", "f", "o">>,
      debug_state |-> <<"d", "e", "b", "u", "g", " ", "s", "t", "a", "t", "e">>,
      show_debug |-> <<"s", "h", "o", "w", " ", "d", "e", "b", "u", "g">>,
      auto |-> <<"a", "u", "t", "o">>,
      play |-> <<"p", "l", "a", "y">>,
      start_reading |->
        <<"s", "t", "a", "r", "t", " ", "r", "e", "a", "d", "i", "n", "g">>,
      faster |-> <<"f", "a", "s", "t", "e", "r">>,
      speed_up |-> <<"s", "p", "e", "e", "d", " ", "u", "p">>,
      slower |-> <<"s", "l", "o", "w", "e", "r">>,
      slow_down |-> <<"s", "l", "o", "w", " ", "d", "o", "w", "n">>,
      next |-> <<"n", "e", "x", "t">>,
      continue |-> <<"c", "o", "n", "t", "i", "n", "u", "e">>,
      previous |-> <<"p", "r", "e", "v", "i", "o", "u", "s">>,
      back |-> <<"b", "a", "c", "k">>,
      stop |-> <<"s", "t", "o", "p">>,
      exit |-> <<"e", "x", "i", "t">>,
      pause |-> <<"p", "a", "u", "s", "e">>,
      restart |-> <<"r", "e", "s", "t", "a", "r", "t">>,
      glasses_status |->
        <<"g", "l", "a", "s", "s", "e", "s", " ",
          "s", "t", "a", "t", "u", "s">>,
      show_status |-> <<"s", "h", "o", "w", " ", "s", "t", "a", "t", "u", "s">>,
      resume |-> <<"r", "e", "s", "u", "m", "e">>,
      continue_reading |->
        <<"c", "o", "n", "t", "i", "n", "u", "e", " ",
          "r", "e", "a", "d", "i", "n", "g">>,
      test_twitter |->
        <<"t", "e", "s", "t", " ", "t", "w", "i", "t", "t", "e", "r">>,
      test_profile |->
        <<"t", "e", "s", "t", " ", "p", "r", "o", "f", "i", "l", "e">>,
      debug_lookup |->
        <<"d", "e", "b", "u", "g", " ", "l", "o", "o", "k", "u", "p">>,
      direct_lookup |->
        <<"d", "i", "r", "e", "c", "t", " ", "l", "o", "o", "k", "u", "p">> ]

\* const testUsername = "elonmusk"; username = "elonmusk"
DefaultUsername == <<"e", "l", "o", "n", "m", "u", "s", "k">>

\* The voice commands of the reader: one transcription for each branch of
\* the handler that changes the app's fields.
Commands ==
    { <<"Y", "e", "s">>,
      <<"n", "o">>,
      <<"T", "w", "i", "t", "t", "e", "r", " ",
        "p", "r", "o", "f", "i", "l", "e", " ", "b", "o", "b">>,
      <<"a", "u", "t", "o">>,
      <<"f", "a", "s", "t", "e", "r">>,
      <<"s", "l", "o", "w", "e", "r">>,
      <<"n", "e", "x", "t">>,
      <<"p", "r", "e", "v", "i", "o", "u", "s">>,
      <<"p", "a", "u", "s", "e">>,
      <<"r", "e", "s", "t", "a", "r", "t">>,
      <<"r", "e", "s", "u", "m", "e">> }

\* The commands the code handles as lookups without confirmation
\* (src/index.ts:212-242).
DirectLookups ==
    { <<"d", "i", "r", "e", "c", "t", " ", "l", "o", "o", "k", "u", "p", " ", "b", "o", "b">>,
      <<"l", "o", "o", "k", " ", "u", "p", " ", "b", "o", "b">>,
      <<"d", "e", "b", "u", "g", " ", "l", "o", "o", "k", "u", "p", " ", "b", "o", "b">>,
      <<"t", "e", "s", "t", " ", "t", "w", "i", "t", "t", "e", "r">>,
      <<"t", "e", "s", "t", " ", "p", "r", "o", "f", "i", "l", "e">> }

\* Every transcription the model delivers: the commands, the lookups without
\* confirmation, a lookup without a name, small talk and the lookup of a
\* second profile.
Utterances ==
    Commands \cup DirectLookups \cup
    { <<"l", "o", "o", "k", "u", "p">>,
      <<"h", "e", "l", "l", "o">>,
      <<"T", "w", "i", "t", "t", "e", "r", " ",
        "p", "r", "o", "f", "i", "l", "e", " ", "a", "l">> }

\* const text = data.text.toLowerCase(), and which of the handler's
\* substrings it includes.
Heard ==
    [u \in Utterances |->
        LET t == ToLowerCase(u)
        IN  [text |-> t,
             has  |-> {k \in DOMAIN Kw : Includes(t, Kw[k])}]]

\* ------------------------------------------------------------ the app state

Sessions == {1}

\* null
Null == <<>>

Some(x) == <<x>>

\* The app's fields and the event loop as one record; a handler is a
\* function from the record before it to the record after it.
State ==
    [ isDisplayingTwitterInfo |-> isDisplayingTwitterInfo,
      twitterChunks           |-> twitterChunks,
      currentChunkIndex       |-> currentChunkIndex,
      autoAdvanceTimer        |-> autoAdvanceTimer,
      isAutoAdvancing         |-> isAutoAdvancing,
      readingSpeed            |-> readingSpeed,
      overlapTime             |-> overlapTime,
      pendingUsername         |-> pendingUsername,
      isAwaitingConfirmation  |-> isAwaitingConfirmation,
      confirmationTimeout     |-> confirmationTimeout,
      timers                  |-> timers,
      fetches                 |-> fetches,
      event                   |-> event,
      out                     |-> <<>> ]

\* The event a handler is entered for.
Event(type, name, sess, stale) ==
    [type |-> type, name |-> name, session |-> sess, stale |-> stale]

Entered(s, type, name, sess, stale) ==
    [s EXCEPT !.event = Event(type, name, sess, stale), !.out = <<>>]

\* The branch of the transcription handler that was taken.
Branch(s, name) == [s EXCEPT !.event.name = name]

\* session.layouts.showTextWall(message)
ShowTextWall(s, sess, msg) ==
    [s EXCEPT !.out = Append(@, [kind |-> "notice", session |-> sess,
                                 msg |-> msg])]

\* setTimeout(callback, delay); id names the handle when the code keeps it.
Timer(kind, sess, id, delay) ==
    [kind |-> kind, session |-> sess, id |-> id, delay |-> delay,
     stale |-> FALSE]

SetTimeout(s, timer) == [s EXCEPT !.timers = @ (+) SetToBag({timer})]

\* clearTimeout(handle)
ClearTimeout(s, id) ==
    [s EXCEPT !.timers =
        @ (-) [t \in {x \in BagToSet(@) : x.id = id} |-> CopiesIn(t, @)]]

\* A handle no pending timer has.
FreshId(s) ==
    CHOOSE i \in 1..(BagCardinality(s.timers) + 1) :
        /\ \A t \in BagToSet(s.timers) : t.id # i
        /\ \A j \in 1..(i - 1) : \E t \in BagToSet(s.timers) : t.id = j

\* The advance callbacks pending when auto-advance is stopped or a new
\* chunk sequence is loaded were scheduled before that stop or load.
MarkStale(b) ==
    BagOfAll(LAMBDA t : IF t.kind = "advance"
                        THEN [t EXCEPT !.stale = TRUE] ELSE t, b)

\* The confirmation timeouts pending when another username becomes the
\* pending one were armed for the request of the earlier username.
MarkReplaced(b) ==
    BagOfAll(LAMBDA t : IF t.kind = "confirm"
                        THEN [t EXCEPT !.stale = TRUE] ELSE t, b)

\* readingSpeed - overlapTime
PacingDelaySwapped(s) == s.overlapTime - s.readingSpeed

PacingDelay(s) == s.readingSpeed - s.overlapTime

\* displayTwitterChunk
DisplayTwitterChunkLabelsFromZero(s, sess) ==
    IF s.currentChunkIndex >= 0 /\ s.currentChunkIndex < Len(s.twitterChunks)
    THEN LET shown ==
                [s EXCEPT !.out = Append(@,
                    [kind     |-> "chunk",
                     session  |-> sess,
                     index    |-> s.currentChunkIndex,
                     label    |-> <<s.currentChunkIndex,
                                    Len(s.twitterChunks)>>,
                     content  |-> s.twitterChunks[s.currentChunkIndex + 1],
                     duration |-> s.readingSpeed])]
         IN  IF s.isAutoAdvancing
                /\ s.currentChunkIndex < Len(s.twitterChunks) - 1
             THEN SetTimeout(shown,
                             Timer("advance", sess, 0, PacingDelay(s)))
             ELSE shown
    ELSE s

DisplayTwitterChunk(s, sess) ==
    IF s.currentChunkIndex >= 0 /\ s.currentChunkIndex < Len(s.twitterChunks)
    THEN LET shown ==
                [s EXCEPT !.out = Append(@,
                    [kind     |-> "chunk",
                     session  |-> sess,
                     index    |-> s.currentChunkIndex,
                     label    |-> <<s.currentChunkIndex + 1,
                                    Len(s.twitterChunks)>>,
                     content  |-> s.twitterChunks[s.currentChunkIndex + 1],
                     duration |-> s.readingSpeed])]
         IN  IF s.isAutoAdvancing
                /\ s.currentChunkIndex < Len(s.twitterChunks) - 1
             THEN SetTimeout(shown,
                             Timer("advance", sess, 0, PacingDelay(s)))
             ELSE shown
    ELSE s

\* stopAutoAdvance
StopAutoAdvanceKeepsFlag(s) == [s EXCEPT !.timers = MarkStale(@)]

StopAutoAdvance(s) ==
    [s EXCEPT !.autoAdvanceTimer = 0,
              !.isAutoAdvancing = FALSE,
              !.timers = MarkStale(@)]

\* startAutoAdvance
StartAutoAdvance(s, sess) ==
    DisplayTwitterChunk([StopAutoAdvance(s) EXCEPT !.isAutoAdvancing = TRUE],
                        sess)

\* The callback of the timer displayTwitterChunk sets.
AdvanceCallbackStalls(s, sess) ==
    IF s.isAutoAdvancing
    THEN [s EXCEPT !.currentChunkIndex = @ + 1]
    ELSE s

AdvanceCallback(s, sess) ==
    IF s.isAutoAdvancing
    THEN DisplayTwitterChunk(
            [s EXCEPT !.currentChunkIndex = @ + 1], sess)
    ELSE s

\* Math.max(500, Math.min(10000, readingSpeed + adjustment))
MinSpeed == 500

MaxSpeed == 10000

MinOverlap == 400

OverlapMargin == 200

RestartDelay == 2000

ConfirmDelay == 15000

DefaultSpeed == 5000

DefaultOverlap == 1800

\* this.adjustReadingSpeed(session, -500) / (session, 500)
SpeedStep == 500

\* adjustReadingSpeed
AdjustReadingSpeedNoCeiling(s, sess, adjustment) ==
    LET speed == Max(MinSpeed, s.readingSpeed + adjustment)
        set   == [s EXCEPT !.readingSpeed = speed,
                           !.overlapTime = Max(MinOverlap,
                                               speed - OverlapMargin)]
        told  == ShowTextWall(set, sess,
                     IF adjustment < 0 THEN "speed increased"
                                       ELSE "speed decreased")
    IN  IF told.isAutoAdvancing
        THEN SetTimeout(StopAutoAdvance(told),
                        Timer("speed restart", sess, 0, RestartDelay))
        ELSE told

AdjustReadingSpeed(s, sess, adjustment) ==
    LET speed == Max(MinSpeed, Min(MaxSpeed, s.readingSpeed + adjustment))
        set   == [s EXCEPT !.readingSpeed = speed,
                           !.overlapTime = Max(MinOverlap,
                                               speed - OverlapMargin)]
        told  == ShowTextWall(set, sess,
                     IF adjustment < 0 THEN "speed increased"
                                       ELSE "speed decreased")
    IN  IF told.isAutoAdvancing
        THEN SetTimeout(StopAutoAdvance(told),
                        Timer("speed restart", sess, 0, RestartDelay))
        ELSE told

\* fetchTwitterProfile up to the call of getProfileInfo, which shows its own
\* message (src/twitterAgent.ts:29) and leaves a promise pending.
FetchTwitterProfile(s, sess, username) ==
    LET told == ShowTextWall(ShowTextWall(s, sess, "fetching"),
                             sess, "fetching")
    IN  [told EXCEPT !.isDisplayingTwitterInfo = TRUE,
                     !.fetches = @ (+) SetToBag({[session  |-> sess,
                                                  username |-> username]})]

\* The chunks of a profile: chunkText's result on the formatted profile of
\* a lookup, n chunks long; chunk i is told apart by the lookup and i.
ProfileChunks(username, n) == [i \in 1..n |-> <<username, i>>]

\* The .then callback of fetchTwitterProfile with a profile.
ProfileReceived(s, sess, username, n) ==
    LET loaded == [s EXCEPT !.twitterChunks = ProfileChunks(username, n),
                            !.currentChunkIndex = 0,
                            !.timers = MarkStale(@)]
    IN  StartAutoAdvance(DisplayTwitterChunk(loaded, sess), sess)

\* The .then callback of fetchTwitterProfile with null.
ProfileMissing(s, sess) ==
    [ShowTextWall(s, sess, "could not find")
        EXCEPT !.isDisplayingTwitterInfo = FALSE]

\* The username handleTwitterProfileCommand extracts.
ExtractUsername(t, has) ==
    LET name ==
            IF "twitter_profile" \in has
                THEN Trim(RemoveAll(t, Kw.twitter_profile))
            ELSE IF "get_twitter_info" \in has
                THEN Trim(RemoveAll(t, Kw.get_twitter_info))
            ELSE IF "twitter" \in has /\ "profile" \in has
                THEN Trim(RemoveThroughPair(t, Kw.twitter, Kw.profile))
            ELSE IF "get" \in has /\ "info" \in has
                THEN Trim(RemoveThroughPair(t, Kw.get, Kw.info))
            ELSE IF "look_up" \in has
                THEN Trim(RemoveThrough(t, Kw.look_up))
            ELSE IF "lookup" \in has
                THEN Trim(RemoveThrough(t, Kw.lookup))
            ELSE <<>>
    IN  IF name = <<>> THEN DefaultUsername ELSE name

\* handleTwitterProfileCommand
HandleTwitterProfileCommand(s, sess, t, has) ==
    LET asked   == [s EXCEPT !.pendingUsername =
                                  Some(ExtractUsername(t, has)),
                             !.isAwaitingConfirmation = TRUE]
        cleared == IF asked.confirmationTimeout # 0
                   THEN ClearTimeout(asked, asked.confirmationTimeout)
                   ELSE asked
        id      == FreshId(cleared)
        armed   == SetTimeout([cleared EXCEPT !.confirmationTimeout = id],
                              Timer("confirm", sess, id, ConfirmDelay))
    IN  ShowTextWall(armed, sess, "did you want")

\* The callback of the confirmation timeout.
ConfirmTimeoutCallbackKeepsName(s, sess) ==
    IF s.isAwaitingConfirmation
    THEN ShowTextWall([s EXCEPT !.isAwaitingConfirmation = FALSE],
                      sess, "timed out")
    ELSE s

ConfirmTimeoutCallback(s, sess) ==
    IF s.isAwaitingConfirmation
    THEN ShowTextWall([s EXCEPT !.isAwaitingConfirmation = FALSE,
                                !.pendingUsername = Null],
                      sess, "timed out")
    ELSE s

\* if (this.confirmationTimeout) { clearTimeout(...); ... = null; }
ClearConfirmation(s) ==
    IF s.confirmationTimeout # 0
    THEN [ClearTimeout(s, s.confirmationTimeout)
            EXCEPT !.confirmationTimeout = 0]
    ELSE s

\* text.replace(/a|b/gi, ""): every occurrence of either removed, left to
\* right, a tried first.
RECURSIVE RemoveAllEither(_, _, _)
RemoveAllEither(t, a, b) ==
    IF t = <<>> THEN t
    ELSE IF StartsWith(t, a)
         THEN RemoveAllEither(SubSeq(t, Len(a) + 1, Len(t)), a, b)
    ELSE IF StartsWith(t, b)
         THEN RemoveAllEither(SubSeq(t, Len(b) + 1, Len(t)), a, b)
    ELSE <<Head(t)>> \o RemoveAllEither(Tail(t), a, b)

\* The final transcriptions received while awaiting confirmation.
ConfirmationInput(s, sess, t, has) ==
    IF has \cap {"yes", "correct", "right", "confirm"} # {}
    THEN LET username == s.pendingUsername
             answered == ClearConfirmation(
                            [Branch(s, "confirm yes")
                                EXCEPT !.isAwaitingConfirmation = FALSE,
                                       !.pendingUsername = Null])
         IN  IF username # Null /\ username[1] # <<>>
             THEN FetchTwitterProfile(
                      ShowTextWall(answered, sess, "getting info"),
                      sess, username[1])
             ELSE answered
    ELSE IF has \cap {"no", "wrong", "incorrect", "cancel"} # {}
    THEN ShowTextWall(
            ClearConfirmation(
                [Branch(s, "confirm no")
                    EXCEPT !.isAwaitingConfirmation = FALSE,
                           !.pendingUsername = Null]),
            sess, "lookup cancelled")
    ELSE IF has \cap {"twitter_profile", "get_twitter_info"} # {}
    THEN LET newUsername ==
                Trim(RemoveAllEither(t, Kw.twitter_profile,
                                     Kw.get_twitter_info))
             changed == Branch(s, "confirm change")
         IN  IF newUsername # <<>>
             THEN ShowTextWall(
                    [changed EXCEPT
                        !.pendingUsername = Some(newUsername),
                        !.timers = IF s.pendingUsername = Some(newUsername)
                                   THEN @ ELSE MarkReplaced(@)],
                    sess, "changed username")
             ELSE ShowTextWall(changed, sess, "did you want")
    ELSE IF has \cap {"cancel_lookup", "stop_confirmation"} # {}
    THEN IF s.isAwaitingConfirmation
         THEN ShowTextWall(
                ClearConfirmation(
                    [Branch(s, "confirm cancel")
                        EXCEPT !.isAwaitingConfirmation = FALSE,
                               !.pendingUsername = Null]),
                sess, "lookup cancelled")
         ELSE Branch(s, "confirm cancel")
    ELSE ShowTextWall(Branch(s, "confirm unclear"), sess, "did you want")

\* 'next' / 'continue'
NextCommandClampsLate(s, sess) ==
    LET moved == [StopAutoAdvance(s) EXCEPT !.currentChunkIndex = @ + 1]
    IN  IF moved.currentChunkIndex > Len(moved.twitterChunks)
        THEN ShowTextWall(
                [moved EXCEPT !.currentChunkIndex =
                                    Len(moved.twitterChunks) - 1],
                sess, "end reached")
        ELSE DisplayTwitterChunk(moved, sess)

NextCommand(s, sess) ==
    LET moved == [StopAutoAdvance(s) EXCEPT !.currentChunkIndex = @ + 1]
    IN  IF moved.currentChunkIndex >= Len(moved.twitterChunks)
        THEN ShowTextWall(
                [moved EXCEPT !.currentChunkIndex =
                                    Len(moved.twitterChunks) - 1],
                sess, "end reached")
        ELSE DisplayTwitterChunk(moved, sess)

\* 'previous' / 'back'
PreviousCommandClampsLate(s, sess) ==
    LET moved == [StopAutoAdvance(s) EXCEPT !.currentChunkIndex = @ - 1]
    IN  IF moved.currentChunkIndex < -1
        THEN ShowTextWall([moved EXCEPT !.currentChunkIndex = 0],
                          sess, "beginning reached")
        ELSE DisplayTwitterChunk(moved, sess)

PreviousCommand(s, sess) ==
    LET moved == [StopAutoAdvance(s) EXCEPT !.currentChunkIndex = @ - 1]
    IN  IF moved.currentChunkIndex < 0
        THEN ShowTextWall([moved EXCEPT !.currentChunkIndex = 0],
                          sess, "beginning reached")
        ELSE DisplayTwitterChunk(moved, sess)

\* 'stop' / 'exit' / 'pause'
PauseCommand(s, sess) ==
    ShowTextWall([StopAutoAdvance(s)
                    EXCEPT !.isDisplayingTwitterInfo = FALSE],
                 sess, "paused")

\* 'restart'
RestartCommandKeepsAdvancing(s, sess) ==
    DisplayTwitterChunk([s EXCEPT !.currentChunkIndex = 0], sess)

RestartCommand(s, sess) ==
    DisplayTwitterChunk([StopAutoAdvance(s) EXCEPT !.currentChunkIndex = 0],
                        sess)

\* The navigation commands, taken while isDisplayingTwitterInfo.
Navigation(s, sess, has) ==
    IF has \cap {"auto", "play", "start_reading"} # {}
    THEN ShowTextWall(StartAutoAdvance(Branch(s, "auto"), sess),
                      sess, "auto-advancing")
    ELSE IF has \cap {"faster", "speed_up"} # {}
    THEN AdjustReadingSpeed(Branch(s, "faster"), sess, -SpeedStep)
    ELSE IF has \cap {"slower", "slow_down"} # {}
    THEN AdjustReadingSpeed(Branch(s, "slower"), sess, SpeedStep)
    ELSE IF has \cap {"next", "continue"} # {}
    THEN NextCommand(Branch(s, "next"), sess)
    ELSE IF has \cap {"previous", "back"} # {}
    THEN PreviousCommand(Branch(s, "previous"), sess)
    ELSE IF has \cap {"stop", "exit", "pause"} # {}
    THEN PauseCommand(Branch(s, "pause"), sess)
    ELSE IF "restart" \in has
    THEN RestartCommand(Branch(s, "restart"), sess)
    ELSE Branch(s, "ignored")

\* text.replace(/pat/gi, "").trim() || "elonmusk"
NameOrDefault(t, pat) ==
    LET name == Trim(RemoveAll(t, pat))
    IN  IF name = <<>> THEN DefaultUsername ELSE name

\* The onTranscription callback on a final transcription.
OnFinal(s, sess, t, has) ==
    IF s.isAwaitingConfirmation
    THEN ConfirmationInput(s, sess, t, has)
    ELSE IF has \cap {"twitter", "profile", "get_info", "look_up", "lookup"}
                # {}
    THEN IF \/ has \cap {"twitter_profile", "get_twitter_info", "look_up",
                         "lookup"} # {}
            \/ {"twitter", "profile"} \subseteq has
            \/ {"get", "info"} \subseteq has
         THEN HandleTwitterProfileCommand(Branch(s, "lookup request"),
                                          sess, t, has)
         ELSE ShowTextWall(Branch(s, "hint"), sess, "hint")
    ELSE IF has \cap {"debug_state", "show_debug"} # {}
    THEN ShowTextWall(Branch(s, "debug state"), sess, "app state")
    ELSE IF s.isDisplayingTwitterInfo
    THEN Navigation(s, sess, has)
    ELSE IF has \cap {"glasses_status", "show_status"} # {}
    THEN ShowTextWall(Branch(s, "glasses status"), sess, "glasses status")
    ELSE IF /\ ~s.isDisplayingTwitterInfo
            /\ Len(s.twitterChunks) > 0
            /\ has \cap {"resume", "continue_reading"} # {}
    THEN StartAutoAdvance(
            [Branch(s, "resume") EXCEPT !.isDisplayingTwitterInfo = TRUE],
            sess)
    ELSE IF has \cap {"test_twitter", "test_profile"} # {}
    THEN FetchTwitterProfile(
            ShowTextWall(Branch(s, "test lookup"), sess, "running test"),
            sess, DefaultUsername)
    ELSE IF "debug_lookup" \in has
    THEN FetchTwitterProfile(
            ShowTextWall(Branch(s, "debug lookup"), sess, "manual lookup"),
            sess, NameOrDefault(t, Kw.debug_lookup))
    ELSE IF "direct_lookup" \in has
    THEN FetchTwitterProfile(
            ShowTextWall(Branch(s, "direct lookup"), sess, "direct lookup"),
            sess, NameOrDefault(t, Kw.direct_lookup))
    ELSE IF StartsWith(t, Kw.look_up_sp)
    THEN FetchTwitterProfile(
            ShowTextWall(Branch(s, "look up"), sess, "direct lookup"),
            sess, Trim(RemoveAll(t, Kw.look_up_sp)))
    ELSE ShowTextWall(Branch(s, "echo"), sess, "echo")

\* The onTranscription callback on a partial transcription.
OnPartialAnswers(s, sess) ==
    IF ~s.isDisplayingTwitterInfo /\ ~s.isAwaitingConfirmation
    THEN ShowTextWall(s, sess, "echo")
    ELSE IF s.isAwaitingConfirmation
    THEN ShowTextWall([s EXCEPT !.isAwaitingConfirmation = FALSE,
                                !.pendingUsername = Null],
                      sess, "echo, waiting for yes/no")
    ELSE s

OnPartial(s, sess) ==
    IF ~s.isDisplayingTwitterInfo /\ ~s.isAwaitingConfirmation
    THEN ShowTextWall(s, sess, "echo")
    ELSE IF s.isAwaitingConfirmation
    THEN ShowTextWall(s, sess, "echo, waiting for yes/no")
    ELSE s

\* ---------------------------------------------------------- the Python agent

\* A promise before runPythonAgent has created it, and as created.
NoPromise == [state |-> "none", reason |-> ""]

Pending == [state |-> "pending", reason |-> ""]

\* resolve(value) or reject(error): the first call settles the promise,
\* later calls are ignored.
SettleOverwrites(p, state, reason) == [state |-> state, reason |-> reason]

Settle(p, state, reason) ==
    IF p.state = "pending" THEN [state |-> state, reason |-> reason] ELSE p

\* How runPythonAgent gets as far as its return: the script is missing,
\* every spawn threw, or a process was spawned.
Starts == {"script missing", "no executable", "spawned"}

\* The exit codes of the python process.
ExitCodes == {0, 1}

\* runPythonAgent up to its return.
RunPythonAgent(start) ==
    IF start = "spawned"
    THEN /\ promise' = Pending
         /\ proc' = "running"
         /\ processTimeout' = TRUE
    ELSE /\ promise' = Settle(Pending, "rejected", start)
         /\ proc' = "none"
         /\ processTimeout' = FALSE

\* A handler that starts a fetch runs the agent; the model follows one
\* python process at a time.
AgentAfter(s, lim) ==
    IF lim.agent /\ BagCardinality(s.fetches) > BagCardinality(fetches)
    THEN /\ proc # "running"
         /\ \E start \in Starts : RunPythonAgent(start)
    ELSE UNCHANGED agentVars

\* What getProfileInfo resolves to once runPythonAgent's promise has
\* settled: a profile from the output, null from the catch block.
GetProfileInfo(p) == IF p.state = "resolved" THEN "profile" ELSE "null"

\* --------------------------------------------------------------- the machine

\* chunkText is not running.
ChunkIdle ==
    /\ text = <<>>
    /\ maxLength = 0
    /\ overlap = 0
    /\ startPos = 0
    /\ chunks = <<>>
    /\ spans = <<>>
    /\ cpc = "idle"

\* No lookup has run the Python agent yet.
AgentIdle ==
    /\ promise = NoPromise
    /\ proc = "none"
    /\ processTimeout = FALSE

\* The app as constructed (src/index.ts:8-21), none of the sessions S
\* connected yet.
AppStart(S) ==
    /\ isDisplayingTwitterInfo = FALSE
    /\ twitterChunks = <<>>
    /\ currentChunkIndex = 0
    /\ autoAdvanceTimer = 0
    /\ isAutoAdvancing = FALSE
    /\ readingSpeed = DefaultSpeed
    /\ overlapTime = DefaultOverlap
    /\ pendingUsername = Null
    /\ isAwaitingConfirmation = FALSE
    /\ confirmationTimeout = 0
    /\ open = [sess \in S |-> "new"]
    /\ timers = EmptyBag
    /\ fetches = EmptyBag
    /\ event = Event("none", "none", 0, FALSE)
    /\ out = <<>>
    /\ userStopped = FALSE
    /\ phase = "init"
    /\ latest = Null
    /\ AgentIdle

AppInit == AppStart(Sessions)

Abs(x) == IF x < 0 THEN -x ELSE x

\* The part of the state space that is explored: at most lim.timers pending
\* timers, lim.fetches fetches in flight, and a reading speed at most
\* lim.speedSteps steps away from its default.
WithinBounds(s, lim) ==
    /\ BagCardinality(s.timers) <= lim.timers
    /\ BagCardinality(s.fetches) <= lim.fetches
    /\ Abs(s.readingSpeed - DefaultSpeed) <= lim.speedSteps * SpeedStep

\* The limits of the pager's specification.
Limits ==
    [timers |-> MaxTimers, fetches |-> MaxFetches,
     speedSteps |-> MaxSpeedSteps,
     agent |-> FALSE]

\* A stop was performed and no start of auto-advance was requested since.
StoppedAfter(e, was) ==
    IF e.type = "transcription"
       /\ e.name \in {"pause", "next", "previous", "restart"}
    THEN TRUE
    ELSE IF \/ e.type = "transcription" /\ e.name \in {"auto", "resume"}
            \/ e.type = "fetch" /\ e.name = "profile"
    THEN FALSE
    ELSE was

\* How far the run is one load (which starts auto-advance), further starts,
\* then one stop and nothing but timers.
PhaseAfter(e, was) ==
    IF was = "init"
    THEN IF e.name \in {"open", "lookup request", "confirm yes"}
         THEN "init"
         ELSE IF e.type = "fetch" /\ e.name = "profile"
         THEN "started" ELSE "off"
    ELSE IF was = "started"
    THEN IF e.type = "transcription" /\ e.name = "auto" THEN "started"
         ELSE IF e.type = "transcription" /\ e.name = "pause"
         THEN "stopped" ELSE "off"
    ELSE IF was = "stopped"
    THEN IF e.type = "timer" THEN "stopped" ELSE "off"
    ELSE "off"

\* The username of the lookup requested last: a handler that starts a
\* fetch makes its username the latest.
LatestAfter(s, was) ==
    LET started == BagToSet(s.fetches (-) fetches)
    IN  IF started # {}
        THEN Some((CHOOSE f \in started : TRUE).username)
        ELSE was

\* The handler's result becomes the state.
Commit(result, lim) ==
    \E s \in {result} :
        /\ WithinBounds(s, lim)
        /\ isDisplayingTwitterInfo' = s.isDisplayingTwitterInfo
        /\ twitterChunks' = s.twitterChunks
        /\ currentChunkIndex' = s.currentChunkIndex
        /\ autoAdvanceTimer' = s.autoAdvanceTimer
        /\ isAutoAdvancing' = s.isAutoAdvancing
        /\ readingSpeed' = s.readingSpeed
        /\ overlapTime' = s.overlapTime
        /\ pendingUsername' = s.pendingUsername
        /\ isAwaitingConfirmation' = s.isAwaitingConfirmation
        /\ confirmationTimeout' = s.confirmationTimeout
        /\ timers' = s.timers
        /\ fetches' = s.fetches
        /\ event' = s.event
        /\ out' = s.out
        /\ userStopped' = StoppedAfter(s.event, userStopped)
        /\ phase' = PhaseAfter(s.event, phase)
        /\ latest' = LatestAfter(s, latest)
        /\ AgentAfter(s, lim)
        /\ UNCHANGED chunkVars

\* onSession: a session connects and its handlers are registered.
OnSession(sess, lim) ==
    /\ open[sess] = "new"
    /\ open' = [open EXCEPT ![sess] = "open"]
    /\ Commit(ShowTextWall(Entered(State, "session", "open", sess, FALSE),
                           sess, "ready"), lim)

\* The session ends and its cleanup handlers run.
SessionEnd(sess, lim) ==
    /\ open[sess] = "open"
    /\ open' = [open EXCEPT ![sess] = "ended"]
    /\ Commit(StopAutoAdvance(Entered(State, "session", "end", sess, FALSE)),
              lim)

\* A transcription arrives.
Transcription(sess, u, isFinal, lim) ==
    /\ open[sess] = "open"
    /\ LET s == Entered(State, "transcription", "partial", sess, FALSE)
       IN  Commit(IF isFinal
                  THEN OnFinal(s, sess, Heard[u].text, Heard[u].has)
                  ELSE OnPartial(s, sess), lim)
    /\ UNCHANGED open

\* The state with a timer taken off the timer list, its callback entered.
Fired(t) ==
    Entered([State EXCEPT !.timers = @ (-) SetToBag({t})],
            "timer", t.kind, t.session, t.stale)

\* A timer set by displayTwitterChunk fires.
AdvanceTimerFires(t, lim) ==
    /\ t.kind = "advance"
    /\ Commit(AdvanceCallback(Fired(t), t.session), lim)
    /\ UNCHANGED open

\* The timer set by adjustReadingSpeed fires.
RestartTimerFires(t, lim) ==
    /\ t.kind = "speed restart"
    /\ Commit(StartAutoAdvance(Fired(t), t.session), lim)
    /\ UNCHANGED open

\* The confirmation timeout fires.
ConfirmTimerFiresLost(t, lim) ==
    /\ t.kind = "confirm"
    /\ Commit(Fired(t), lim)
    /\ UNCHANGED open

ConfirmTimerFires(t, lim) ==
    /\ t.kind = "confirm"
    /\ Commit(ConfirmTimeoutCallback(Fired(t), t.session), lim)
    /\ UNCHANGED open

\* The state with a fetch settled.
Settled(f, name) ==
    Entered([State EXCEPT !.fetches = @ (-) SetToBag({f})],
            "fetch", name, f.session, FALSE)

\* getProfileInfo resolves with a profile whose text makes n chunks.
FetchResolves(f, n, lim) ==
    /\ Commit(ProfileReceived(Settled(f, "profile"), f.session,
                              f.username, n), lim)
    /\ UNCHANGED open

\* getProfileInfo resolves with null.
FetchFails(f, lim) ==
    /\ Commit(ProfileMissing(Settled(f, "no profile"), f.session), lim)
    /\ UNCHANGED open

Init == ChunkIdle /\ AppInit

Next ==
    \/ \E sess \in Sessions : OnSession(sess, Limits)
    \/ \E sess \in Sessions : SessionEnd(sess, Limits)
    \/ \E sess \in Sessions, u \in Commands :
          Transcription(sess, u, TRUE, Limits)
    \/ \E t \in BagToSet(timers) : AdvanceTimerFires(t, Limits)
    \/ \E t \in BagToSet(timers) : RestartTimerFires(t, Limits)
    \/ \E t \in BagToSet(timers) : ConfirmTimerFires(t, Limits)
    \/ \E f \in BagToSet(fetches), n \in 1..MaxChunks :
          FetchResolves(f, n, Limits)
    \/ \E f \in BagToSet(fetches) : FetchFails(f, Limits)

Spec == Init /\ [][Next]_vars

ChunkInit ==
    /\ \E call \in Calls :
        /\ text = call[1]
        /\ maxLength = call[2]
        /\ overlap = call[3]
    /\ startPos = 0
    /\ chunks = <<>>
    /\ spans = <<>>
    /\ cpc = "loop"
    /\ AppInit

\* One iteration of the while loop.  spans records the (startPos, endPos)
\* pair behind each pushed chunk.
ChunkIter ==
    /\ cpc = "loop"
    /\ LoopCond(text, startPos)
    /\ Len(chunks) < MaxIter
    /\ LET endPos == ChunkEnd(text, startPos, maxLength)
       IN  /\ chunks' = Append(chunks, Substring(text, startPos, endPos))
           /\ spans' = Append(spans, <<startPos, endPos>>)
           /\ startPos' = NextStart(endPos, overlap)
    /\ UNCHANGED <<text, maxLength, overlap, cpc>>
    /\ UNCHANGED <<appVars, agentVars>>

\* The loop condition fails: return chunks.
ChunkReturn ==
    /\ cpc = "loop"
    /\ ~LoopCond(text, startPos)
    /\ cpc' = "done"
    /\ UNCHANGED <<text, maxLength, overlap, startPos, chunks, spans>>
    /\ UNCHANGED <<appVars, agentVars>>

ChunkNext == ChunkIter \/ ChunkReturn

SpecChunk == ChunkInit /\ [][ChunkNext]_vars

\* ------------------------------------------------- the whole range of speeds

\* Most setTimeout callbacks pending at once when every speed is explored.
SpeedTimers == 1

\* Every reading speed between the clamps can be reached.
SpeedLimits ==
    [timers |-> SpeedTimers, fetches |-> MaxFetches,
     speedSteps |-> (MaxSpeed - MinSpeed) \div SpeedStep,
     agent |-> FALSE]

\* The commands that bring up a profile, change the speed and switch
\* auto-advance on and off.
SpeedCommands ==
    { <<"Y", "e", "s">>,
      <<"T", "w", "i", "t", "t", "e", "r", " ",
        "p", "r", "o", "f", "i", "l", "e", " ", "b", "o", "b">>,
      <<"a", "u", "t", "o">>,
      <<"f", "a", "s", "t", "e", "r">>,
      <<"s", "l", "o", "w", "e", "r">>,
      <<"p", "a", "u", "s", "e">>,
      <<"r", "e", "s", "u", "m", "e">> }

SpeedNext ==
    \/ \E sess \in Sessions : OnSession(sess, SpeedLimits)
    \/ \E sess \in Sessions : SessionEnd(sess, SpeedLimits)
    \/ \E sess \in Sessions, u \in SpeedCommands :
          Transcription(sess, u, TRUE, SpeedLimits)
    \/ \E t \in BagToSet(timers) : AdvanceTimerFires(t, SpeedLimits)
    \/ \E t \in BagToSet(timers) : RestartTimerFires(t, SpeedLimits)
    \/ \E t \in BagToSet(timers) : ConfirmTimerFires(t, SpeedLimits)
    \/ \E f \in BagToSet(fetches), n \in 1..MaxChunks :
          FetchResolves(f, n, SpeedLimits)
    \/ \E f \in BagToSet(fetches) : FetchFails(f, SpeedLimits)

SpecSpeed == Init /\ [][SpeedNext]_vars

\* ------------------------------------------------------ overlapping lookups

\* Most profile fetches in flight at once when lookups overlap.
LookupFetches == 2

LookupLimits ==
    [timers |-> MaxTimers, fetches |-> LookupFetches, speedSteps |-> 0,
     agent |-> FALSE]

\* The commands that request and confirm the lookup of two profiles.
LookupCommands ==
    { <<"Y", "e", "s">>,
      <<"T", "w", "i", "t", "t", "e", "r", " ",
        "p", "r", "o", "f", "i", "l", "e", " ", "b", "o", "b">>,
      <<"T", "w", "i", "t", "t", "e", "r", " ",
        "p", "r", "o", "f", "i", "l", "e", " ", "a", "l">> }

LookupNext ==
    \/ \E sess \in Sessions : OnSession(sess, LookupLimits)
    \/ \E sess \in Sessions : SessionEnd(sess, LookupLimits)
    \/ \E sess \in Sessions, u \in LookupCommands :
          Transcription(sess, u, TRUE, LookupLimits)
    \/ \E t \in BagToSet(timers) : AdvanceTimerFires(t, LookupLimits)
    \/ \E t \in BagToSet(timers) : ConfirmTimerFires(t, LookupLimits)
    \/ \E f \in BagToSet(fetches), n \in 1..MaxChunks :
          FetchResolves(f, n, LookupLimits)
    \/ \E f \in BagToSet(fetches) : FetchFails(f, LookupLimits)

SpecLookups == Init /\ [][LookupNext]_vars

\* ------------------------------------------------- two sessions, one server

\* Two sessions connected to the same TwitterGlassesApp object.
TwoSessions == {1, 2}

SharedInit == ChunkIdle /\ AppStart(TwoSessions)

\* The commands that bring up a profile and page through it.
SharedCommands ==
    { <<"Y", "e", "s">>,
      <<"T", "w", "i", "t", "t", "e", "r", " ",
        "p", "r", "o", "f", "i", "l", "e", " ", "b", "o", "b">>,
      <<"n", "e", "x", "t">>,
      <<"a", "u", "t", "o">> }

SharedLimits ==
    [timers |-> MaxTimers, fetches |-> MaxFetches, speedSteps |-> 0,
     agent |-> FALSE]

SharedNext ==
    \/ \E sess \in TwoSessions : OnSession(sess, SharedLimits)
    \/ \E sess \in TwoSessions : SessionEnd(sess, SharedLimits)
    \/ \E sess \in TwoSessions, u \in SharedCommands :
          Transcription(sess, u, TRUE, SharedLimits)
    \/ \E t \in BagToSet(timers) : AdvanceTimerFires(t, SharedLimits)
    \/ \E t \in BagToSet(timers) : ConfirmTimerFires(t, SharedLimits)
    \/ \E f \in BagToSet(fetches), n \in 1..MaxChunks :
          FetchResolves(f, n, SharedLimits)
    \/ \E f \in BagToSet(fetches) : FetchFails(f, SharedLimits)

SpecShared == SharedInit /\ [][SharedNext]_vars

\* ------------------------------------------- one load, left to auto-advance

\* Most chunks of the profile that is left to auto-advance.
AutoChunks == 4

AutoLimits ==
    [timers |-> MaxTimers, fetches |-> MaxFetches, speedSteps |-> 0,
     agent |-> FALSE]

\* What is said before the profile is there: lookups of three names, the
\* answers to the confirmation question and small talk.
AutoCommands ==
    { <<"Y", "e", "s">>,
      <<"n", "o">>,
      <<"T", "w", "i", "t", "t", "e", "r", " ",
        "p", "r", "o", "f", "i", "l", "e", " ", "b", "o", "b">>,
      <<"T", "w", "i", "t", "t", "e", "r", " ",
        "p", "r", "o", "f", "i", "l", "e", " ", "a", "l">>,
      <<"l", "o", "o", "k", "u", "p">>,
      <<"h", "e", "l", "l", "o">> }

\* Nothing is said any more once a lookup is in flight or has loaded its
\* chunks.
Quiet == twitterChunks # <<>> \/ fetches # EmptyBag

AdvanceFires == \E t \in BagToSet(timers) : AdvanceTimerFires(t, AutoLimits)

AutoNext ==
    \/ \E sess \in Sessions : OnSession(sess, AutoLimits)
    \/ \E sess \in Sessions, u \in AutoCommands, isFinal \in BOOLEAN :
          ~Quiet /\ Transcription(sess, u, isFinal, AutoLimits)
    \/ AdvanceFires
    \/ \E t \in BagToSet(timers) : ConfirmTimerFires(t, AutoLimits)
    \/ \E f \in BagToSet(fetches), n \in 1..AutoChunks :
          FetchResolves(f, n, AutoLimits)
    \/ \E f \in BagToSet(fetches) : FetchFails(f, AutoLimits)

\* A pending setTimeout callback is run by the event loop.
SpecAuto == Init /\ [][AutoNext]_vars /\ WF_vars(AdvanceFires)

\* ------------------------------------------- lookups without confirmation

DirectLimits ==
    [timers |-> MaxTimers, fetches |-> MaxFetches, speedSteps |-> 0,
     agent |-> FALSE]

\* The lookups without confirmation and the answers to a confirmation.
DirectCommands == DirectLookups \cup {<<"Y", "e", "s">>, <<"n", "o">>}

DirectNext ==
    \/ \E sess \in Sessions : OnSession(sess, DirectLimits)
    \/ \E sess \in Sessions : SessionEnd(sess, DirectLimits)
    \/ \E sess \in Sessions, u \in DirectCommands, isFinal \in BOOLEAN :
          Transcription(sess, u, isFinal, DirectLimits)
    \/ \E t \in BagToSet(timers) : AdvanceTimerFires(t, DirectLimits)
    \/ \E t \in BagToSet(timers) : ConfirmTimerFires(t, DirectLimits)
    \/ \E f \in BagToSet(fetches), n \in 1..MaxChunks :
          FetchResolves(f, n, DirectLimits)
    \/ \E f \in BagToSet(fetches) : FetchFails(f, DirectLimits)

SpecDirect == Init /\ [][DirectNext]_vars

\* ------------------------------------------------- lookups run by the agent

\* pythonProcess.on('close')
AgentClose(code) ==
    /\ proc = "running"
    /\ proc' = "closed"
    /\ processTimeout' = FALSE
    /\ promise' = IF code = 0
                  THEN Settle(promise, "resolved", "")
                  ELSE Settle(promise, "rejected", "exit code")
    /\ UNCHANGED <<chunkVars, appVars>>

\* pythonProcess.on('error')
AgentError ==
    /\ proc = "running"
    /\ processTimeout' = FALSE
    /\ promise' = Settle(promise, "rejected", "spawn error")
    /\ UNCHANGED <<chunkVars, appVars, proc>>

\* The callback of processTimeout: the process is sent a signal and closes
\* later, or not at all.
AgentTimeout ==
    /\ processTimeout
    /\ processTimeout' = FALSE
    /\ promise' = Settle(promise, "rejected", "timeout")
    /\ UNCHANGED <<chunkVars, appVars, proc>>

\* The promise has settled: getProfileInfo continues and the .then callback
\* of fetchTwitterProfile runs.
ProfileSettles(f, n, lim) ==
    /\ promise.state \in {"resolved", "rejected"}
    /\ IF GetProfileInfo(promise) = "profile"
       THEN FetchResolves(f, n, lim)
       ELSE FetchFails(f, lim)

AgentLimits ==
    [timers |-> MaxTimers, fetches |-> MaxFetches, speedSteps |-> 0,
     agent |-> TRUE]

\* The request of a lookup and the answers to its confirmation.
AgentCommands ==
    { <<"Y", "e", "s">>,
      <<"n", "o">>,
      <<"T", "w", "i", "t", "t", "e", "r", " ",
        "p", "r", "o", "f", "i", "l", "e", " ", "b", "o", "b">> }

Delivers ==
    \E f \in BagToSet(fetches), n \in 1..MaxChunks :
        ProfileSettles(f, n, AgentLimits)

AgentNext ==
    \/ \E sess \in Sessions : OnSession(sess, AgentLimits)
    \/ \E sess \in Sessions : SessionEnd(sess, AgentLimits)
    \/ \E sess \in Sessions, u \in AgentCommands, isFinal \in BOOLEAN :
          ~Quiet /\ Transcription(sess, u, isFinal, AgentLimits)
    \/ \E t \in BagToSet(timers) : AdvanceTimerFires(t, AgentLimits)
    \/ \E t \in BagToSet(timers) : ConfirmTimerFires(t, AgentLimits)
    \/ \E code \in ExitCodes : AgentClose(code)
    \/ AgentError
    \/ AgentTimeout
    \/ Delivers

\* The event loop runs a pending timeout callback and the reactions of a
\* settled promise.
SpecAgent ==
    Init /\ [][AgentNext]_vars /\ WF_vars(AgentTimeout) /\ WF_vars(Delivers)

\* ------------------------------------------------------- the confirmation

ConfirmLimits ==
    [timers |-> MaxTimers, fetches |-> MaxFetches, speedSteps |-> 0,
     agent |-> FALSE]

\* Requests of two names, answers and an unclear response.
ConfirmCommands ==
    { <<"Y", "e", "s">>,
      <<"n", "o">>,
      <<"T", "w", "i", "t", "t", "e", "r", " ",
        "p", "r", "o", "f", "i", "l", "e", " ", "b", "o", "b">>,
      <<"T", "w", "i", "t", "t", "e", "r", " ",
        "p", "r", "o", "f", "i", "l", "e", " ", "a", "l">>,
      <<"h", "e", "l", "l", "o">> }

ConfirmFires ==
    \E t \in BagToSet(timers) : ConfirmTimerFires(t, ConfirmLimits)

ConfirmNext ==
    \/ \E sess \in Sessions : OnSession(sess, ConfirmLimits)
    \/ \E sess \in Sessions : SessionEnd(sess, ConfirmLimits)
    \/ \E sess \in Sessions, u \in ConfirmCommands :
          Transcription(sess, u, TRUE, ConfirmLimits)
    \/ \E t \in BagToSet(timers) : AdvanceTimerFires(t, ConfirmLimits)
    \/ ConfirmFires
    \/ \E f \in BagToSet(fetches), n \in 1..MaxChunks :
          FetchResolves(f, n, ConfirmLimits)
    \/ \E f \in BagToSet(fetches) : FetchFails(f, ConfirmLimits)

\* A pending setTimeout callback is run by the event loop.
SpecConfirm == Init /\ [][ConfirmNext]_vars /\ WF_vars(ConfirmFires)

\* ------------------------------------------- final and partial transcriptions

\* The reading speed stays at its default: a speed command is delivered
\* only where the handler does not take it as one.
VoiceLimits ==
    [timers |-> MaxTimers, fetches |-> MaxFetches, speedSteps |-> 0,
     agent |-> FALSE]

\* Requests of two names, the answer 'yes', and commands of the pager.
VoiceCommands ==
    { <<"Y", "e", "s">>,
      <<"T", "w", "i", "t", "t", "e", "r", " ",
        "p", "r", "o", "f", "i", "l", "e", " ", "b", "o", "b">>,
      <<"T", "w", "i", "t", "t", "e", "r", " ",
        "p", "r", "o", "f", "i", "l", "e", " ", "a", "l">>,
      <<"n", "e", "x", "t">>,
      <<"a", "u", "t", "o">>,
      <<"f", "a", "s", "t", "e", "r">> }

VoiceNext ==
    \/ \E sess \in Sessions : OnSession(sess, VoiceLimits)
    \/ \E sess \in Sessions : SessionEnd(sess, VoiceLimits)
    \/ \E sess \in Sessions, u \in VoiceCommands, isFinal \in BOOLEAN :
          Transcription(sess, u, isFinal, VoiceLimits)
    \/ \E t \in BagToSet(timers) : AdvanceTimerFires(t, VoiceLimits)
    \/ \E t \in BagToSet(timers) : ConfirmTimerFires(t, VoiceLimits)
    \/ \E f \in BagToSet(fetches), n \in 1..MaxChunks :
          FetchResolves(f, n, VoiceLimits)
    \/ \E f \in BagToSet(fetches) : FetchFails(f, VoiceLimits)

SpecVoice == Init /\ [][VoiceNext]_vars

\* ------------------------------------------------------- claims on chunkText

\* The configurations the chunker is specified for.
ValidConfig == maxLength > 0 /\ 0 <= overlap /\ overlap < maxLength

LastSpanEnd == spans[Len(spans)][2]

\* Every position of the text lies in some emitted chunk.
Covered ==
    \A p \in 0..(Len(text) - 1) :
        \E i \in 1..Len(spans) : spans[i][1] <= p /\ p < spans[i][2]

\* C1: for a valid configuration, once a chunk ending at text.length has
\* been emitted the loop condition is false, so the loop stops and emits
\* nothing more.
C1_LoopStopsAfterFinalChunk ==
    (ValidConfig /\ spans # <<>> /\ LastSpanEnd = Len(text))
        => ~LoopCond(text, startPos)

C7_OnlyLastChunkEndsAtTextEnd ==
    (ValidConfig /\ text # <<>>) =>
        /\ \A i \in 1..(Len(spans) - 1) : spans[i][2] # Len(text)
        /\ cpc = "done" => (spans # <<>> /\ LastSpanEnd = Len(text))

\* C8: on the empty text the loop is never entered and the result is the
\* empty sequence, whatever maxLength and overlap are.
C8_EmptyTextYieldsNoChunks ==
    text = <<>> =>
        /\ ~LoopCond(text, startPos)
        /\ chunks = <<>>
        /\ spans = <<>>

\* C8 witness: chunk("", 500, 200) has returned.
C8_Witness ==
    /\ text = <<>>
    /\ maxLength = 500
    /\ overlap = 200
    /\ cpc = "done"
    /\ chunks = <<>>

\* C9: a call with an invalid configuration produces no chunk.
C9_InvalidConfigProducesNoChunk == ~ValidConfig => chunks = <<>>

\* ------------------------------------------------------- claims on the pager

\* The last handler was the callback of an advance timer.
AdvanceFired(e) == e.type = "timer" /\ e.name = "advance"

ShowsChunk(o) == \E i \in 1..Len(o) : o[i].kind = "chunk"

\* C2: an advance callback that was scheduled before a stop() or a load()
\* is a no-op when it fires: currentIndex keeps its value, nothing is
\* displayed and no further advance is scheduled.
C2_StaleAdvanceIsNoOp ==
    [][(AdvanceFired(event') /\ event'.stale) =>
          /\ currentChunkIndex' = currentChunkIndex
          /\ out' = <<>>
          /\ BagCardinality(timers') < BagCardinality(timers)]_vars

\* C3: once a stop command (pause, next, previous, restart) was given and
\* no start of auto-advance was requested since, no timer callback advances
\* currentIndex or displays a chunk.
C3_NoAdvanceAfterStop ==
    [][(userStopped /\ AdvanceFired(event')) =>
          /\ currentChunkIndex' = currentChunkIndex
          /\ ~ShowsChunk(out')]_vars

\* C4: from the initial state, after one load, which starts auto-advance,
\* any further starts and then a stop, the timers that fire display no
\* chunk and leave currentIndex as it is.
C4_StopPreventsFurtherDisplay ==
    [][(phase = "stopped" /\ event'.type = "timer") =>
          /\ currentChunkIndex' = currentChunkIndex
          /\ ~ShowsChunk(out')]_vars

\* C4 witness: a pending advance timer of the load has fired after the stop
\* and the first chunk of several is still the current one.
C4_Witness ==
    /\ phase = "stopped"
    /\ AdvanceFired(event)
    /\ Len(twitterChunks) >= 2
    /\ currentChunkIndex = 0
    /\ out = <<>>

\* C5: in every reachable state currentIndex >= 0, and currentIndex is at
\* most length-1 when the chunk sequence is not empty.
C5_IndexInRange ==
    /\ currentChunkIndex >= 0
    /\ twitterChunks # <<>> => currentChunkIndex <= Len(twitterChunks) - 1

EndReached(sess) ==
    <<[kind |-> "notice", session |-> sess, msg |-> "end reached"]>>

\* C10: next() issued at the last index of a non-empty chunk sequence shows
\* the end-reached notice and nothing else, and leaves currentIndex at
\* length-1.
C10_NextAtLastIndex ==
    [][(/\ event'.type = "transcription"
        /\ event'.name = "next"
        /\ twitterChunks # <<>>
        /\ currentChunkIndex = Len(twitterChunks) - 1) =>
          /\ currentChunkIndex' = Len(twitterChunks) - 1
          /\ twitterChunks' = twitterChunks
          /\ out' = EndReached(event'.session)]_vars

\* C10 witness: a next command has reported the end at the last of several
\* chunks.
C10_Witness ==
    /\ event.type = "transcription"
    /\ event.name = "next"
    /\ Len(twitterChunks) >= 2
    /\ currentChunkIndex = Len(twitterChunks) - 1
    /\ out = EndReached(event.session)

BeginningReached(sess) ==
    <<[kind |-> "notice", session |-> sess, msg |-> "beginning reached"]>>

\* C11: previous() issued at index 0 shows the beginning-reached notice and
\* nothing else, and leaves currentIndex at 0 and the chunks as they are.
C11_PreviousAtFirstIndex ==
    [][(/\ event'.type = "transcription"
        /\ event'.name = "previous"
        /\ currentChunkIndex = 0) =>
          /\ currentChunkIndex' = 0
          /\ twitterChunks' = twitterChunks
          /\ out' = BeginningReached(event'.session)]_vars

\* C11 witness: a previous command has reported the beginning at the first
\* of several chunks.
C11_Witness ==
    /\ event.type = "transcription"
    /\ event.name = "previous"
    /\ Len(twitterChunks) >= 2
    /\ currentChunkIndex = 0
    /\ out = BeginningReached(event.session)

\* The last handler was the given voice command.
Said(e, name) == e.type = "transcription" /\ e.name = name

\* A speed command given at a clamp leaves the speed at that clamp.
StaysAtClamp ==
    /\ (Said(event', "faster") /\ readingSpeed = MinSpeed)
            => readingSpeed' = MinSpeed
    /\ (Said(event', "slower") /\ readingSpeed = MaxSpeed)
            => readingSpeed' = MaxSpeed

\* C12: in every reachable state 500 <= readingSpeed <= 10000, and a speed
\* command given at a clamp leaves the speed at that clamp.
C12_SpeedStaysInRange ==
    /\ [](MinSpeed <= readingSpeed /\ readingSpeed <= MaxSpeed)
    /\ [][StaysAtClamp]_vars

\* C12 witness: a slower command has left the speed at the upper clamp.
C12_Witness ==
    /\ Said(event, "slower")
    /\ readingSpeed = MaxSpeed
    /\ \E i \in 1..Len(out) : out[i].msg = "speed decreased"

\* C13: in every reachable state, the initial one included, overlapTime is
\* max(400, readingSpeed - 200), so that the pacing delay depends on
\* readingSpeed alone.
C13_OverlapDerivedFromSpeed ==
    overlapTime = Max(MinOverlap, readingSpeed - OverlapMargin)

\* The last handler was the completion of a lookup that found a profile.
Loaded(e) == e.type = "fetch" /\ e.name = "profile"

AdvancePending(b) == \E t \in BagToSet(b) : t.kind = "advance"

\* C14: when a lookup completes and loads its chunks, currentIndex is 0,
\* auto-advance is off and no advance is scheduled.
C14_LoadClearsAutoAdvance ==
    [][Loaded(event') =>
          /\ currentChunkIndex' = 0
          /\ ~isAutoAdvancing'
          /\ ~AdvancePending(timers')]_vars

\* C15: when a lookup delivers its profile and no other lookup is in
\* flight any more, the loaded chunks are those of the lookup requested
\* last.
C15_LatestLookupOwnsChunks ==
    (fetches = EmptyBag /\ event.type = "fetch" /\ event.name = "profile") =>
        \A i \in 1..Len(twitterChunks) :
            Some(twitterChunks[i][1]) = latest

\* The chunk displays of a handler's output.
ChunksShown(o) == SelectSeq(o, LAMBDA d : d.kind = "chunk")

\* An advance callback that fires while isAutoAdvancing: below the last
\* index it moves one chunk on, displays that chunk and schedules the next
\* advance; at the last index it does nothing.
AdvanceStep ==
    (AdvanceFired(event') /\ isAutoAdvancing) =>
        /\ currentChunkIndex < Len(twitterChunks) - 1 =>
              /\ currentChunkIndex' = currentChunkIndex + 1
              /\ Len(ChunksShown(out')) = 1
              /\ ChunksShown(out')[1].index = currentChunkIndex + 1
              /\ BagCardinality(timers') = BagCardinality(timers)
        /\ currentChunkIndex = Len(twitterChunks) - 1 =>
              /\ currentChunkIndex' = currentChunkIndex
              /\ out' = <<>>
              /\ BagCardinality(timers') = BagCardinality(timers) - 1

\* C16: every advance callback that fires while the pager is auto-advancing
\* is such a step.
C16_AdvanceFiresOneStep == [][AdvanceStep]_vars

\* C17: right after the lookup of one session has loaded its profile, a
\* handler that runs for another session (a command, a timer callback, a
\* lookup completion) leaves the pager's fields as they are.
C17_SessionsDoNotInterfere ==
    [][(/\ Loaded(event)
        /\ event'.type \in {"transcription", "timer", "fetch"}
        /\ event'.session # event.session) =>
          UNCHANGED <<twitterChunks, currentChunkIndex, isAutoAdvancing,
                      isDisplayingTwitterInfo, readingSpeed,
                      pendingUsername, isAwaitingConfirmation>>]_vars

\* C18: once a session has ended, the timer callbacks and lookup
\* completions that run for it display no chunk and leave currentIndex as
\* it is.
C18_NothingAfterSessionEnd ==
    [][(/\ event'.type \in {"timer", "fetch"}
        /\ open[event'.session] = "ended") =>
          /\ currentChunkIndex' = currentChunkIndex
          /\ ~ShowsChunk(out')]_vars

\* A display of the chunk at the current index: the index is within the
\* chunk sequence, the content is the chunk at it, the label counts from 1
\* up to the length and the duration is the reading speed.
ValidDisplay(d) ==
    /\ d.index = currentChunkIndex
    /\ 0 <= d.index /\ d.index < Len(twitterChunks)
    /\ d.content = twitterChunks[d.index + 1]
    /\ d.label = <<d.index + 1, Len(twitterChunks)>>
    /\ 1 <= d.label[1] /\ d.label[1] <= d.label[2]
    /\ d.duration = readingSpeed

\* C19: every display of a chunk shows a valid position.
C19_DisplaysAreValid ==
    \A i \in 1..Len(out) : out[i].kind = "chunk" => ValidDisplay(out[i])

\* C19 witness: an advance callback has displayed the second of two chunks
\* at a changed reading speed.
C19_Witness ==
    /\ AdvanceFired(event)
    /\ readingSpeed # DefaultSpeed
    /\ Len(ChunksShown(out)) = 1
    /\ ChunksShown(out)[1].label = <<2, 2>>

\* C20: right after the restart command auto-advance is off, currentIndex
\* is 0, chunk 0, when there is one, is the one chunk displayed and no
\* timer was scheduled.
C20_RestartShowsFirstChunk ==
    [][Said(event', "restart") =>
          /\ ~isAutoAdvancing'
          /\ currentChunkIndex' = 0
          /\ twitterChunks' = twitterChunks
          /\ twitterChunks # <<>> =>
                /\ Len(ChunksShown(out')) = 1
                /\ ChunksShown(out')[1].index = 0
          /\ BagCardinality(timers') = BagCardinality(timers)]_vars

\* C20 witness: the restart command has displayed the first of several
\* chunks, with an advance of the interrupted auto-advance still pending.
C20_Witness ==
    /\ Said(event, "restart")
    /\ Len(twitterChunks) >= 2
    /\ currentChunkIndex = 0
    /\ ~isAutoAdvancing
    /\ Len(ChunksShown(out)) = 1
    /\ \E t \in BagToSet(timers) : t.kind = "advance" /\ t.stale

\* The last handler was the completion of a lookup that found no profile.
LookupFailed(e) == e.type = "fetch" /\ e.name = "no profile"

\* C21: when a lookup fails the pager is idle afterwards:
\* isDisplayingTwitterInfo is false and auto-advance is not running.
C21_FailedLookupResetsPager ==
    [][LookupFailed(event') =>
          /\ ~isDisplayingTwitterInfo'
          /\ ~isAutoAdvancing']_vars

\* The reference rule for the end of a chunk that starts at sp and does not
\* reach the end of the text: the rightmost of the last ". ", "? ", "! "
\* found backward from endPos whose break position (match + 2) is above
\* sp + ml/2; else the last space at or before endPos when its position is
\* above sp + ml/2, cut after it; else sp + ml.
ReferenceEnd(t, sp, ml) ==
    LET endPos  == Min(sp + ml, Len(t))
        marks   == {<<".", " ">>, <<"?", " ">>, <<"!", " ">>}
        breaks  == {LastIndexOf(t, m, endPos) + 2 : m \in marks}
        good    == {b \in breaks : b >= 2 /\ 2 * b > 2 * sp + ml}
        spacePos == LastIndexOf(t, <<" ">>, endPos)
    IN  IF good # {} THEN SetMax(good)
        ELSE IF 2 * spacePos > 2 * sp + ml THEN spacePos + 1
        ELSE endPos

\* C22: for a valid configuration every chunk that does not reach the end
\* of the text ends where the reference rule ends it.
C22_BreakMatchesReference ==
    ValidConfig =>
        \A i \in 1..Len(spans) :
            spans[i][1] + maxLength < Len(text) =>
                spans[i][2] = ReferenceEnd(text, spans[i][1], maxLength)

\* C23: for a valid configuration every emitted chunk is at most maxLength
\* characters long.
C23_ChunkFitsMaxLength ==
    ValidConfig => \A i \in 1..Len(chunks) : Len(chunks[i]) <= maxLength

\* C24: for a valid configuration the start positions of successive chunks
\* never decrease and every chunk is non-empty.
C24_StartsNeverDecrease ==
    ValidConfig =>
        /\ \A i \in 2..Len(spans) : spans[i][1] >= spans[i - 1][1]
        /\ spans # <<>> => startPos >= spans[Len(spans)][1]
        /\ \A i \in 1..Len(chunks) : chunks[i] # <<>>

\* Each advance moves one chunk on and displays that chunk once.
AdvancesInOrder ==
    AdvanceFired(event') =>
        /\ currentChunkIndex' = currentChunkIndex + 1
        /\ Len(ChunksShown(out')) = 1
        /\ ChunksShown(out')[1].index = currentChunkIndex + 1

\* The last chunk is the current one and nothing is scheduled.
AtLastChunk ==
    /\ twitterChunks # <<>>
    /\ currentChunkIndex = Len(twitterChunks) - 1
    /\ ~AdvancePending(timers)

\* At the last chunk the pager stays as it is, auto-advancing.
StaysAtLastChunk ==
    AtLastChunk =>
        /\ currentChunkIndex' = currentChunkIndex
        /\ isAutoAdvancing'
        /\ ~AdvancePending(timers')

\* C25: a profile loaded from the initial state and left alone is displayed
\* chunk by chunk in increasing order with no index skipped, its last chunk
\* is eventually the current one with no advance scheduled, and from then
\* on the index stays there and isAutoAdvancing stays true.
C25_AutoAdvanceReachesLastChunk ==
    /\ [][AdvancesInOrder]_vars
    /\ [](Loaded(event) => ChunksShown(out)[1].index = 0)
    /\ (twitterChunks # <<>>) ~> AtLastChunk
    /\ [][StaysAtLastChunk]_vars

\* C25 witness: the advance callbacks have gone through a profile of four
\* chunks and displayed the last one.
C25_Witness ==
    /\ AdvanceFired(event)
    /\ Len(twitterChunks) = 4
    /\ AtLastChunk
    /\ isAutoAdvancing
    /\ ChunksShown(out)[1].index = 3

\* The number of advance callbacks pending.
AdvanceCount(b) ==
    LET adv == {t \in BagToSet(b) : t.kind = "advance"}
    IN  IF adv = {} THEN 0
        ELSE BagCardinality([t \in adv |-> CopiesIn(t, b)])

\* C26: while auto-advance is running at most one advance callback is
\* pending, so that no two callbacks fire and both move the index.
C26_OneLiveAdvance == isAutoAdvancing => AdvanceCount(timers) <= 1

\* C27: after a speed change every advance that can still act is paced by
\* the delay computed from the new reading speed: while auto-advance is
\* running no pending advance carries a delay computed from an old speed.
C27_AdvancesUseNewSpeed ==
    isAutoAdvancing =>
        \A t \in BagToSet(timers) :
            t.kind = "advance" => t.delay = readingSpeed - overlapTime

\* A final transcription of a lookup without confirmation arrives.
DirectLookupHeard ==
    \E sess \in Sessions, u \in DirectLookups :
        Transcription(sess, u, TRUE, DirectLimits)

\* C28: a final transcription of 'direct lookup <name>', 'look up <name>',
\* 'debug lookup <name>', 'test twitter' or 'test profile', received while
\* not awaiting confirmation, starts the profile fetch at once and does not
\* enter the awaiting-confirmation state.
C28_DirectLookupSkipsConfirmation ==
    [][(~isAwaitingConfirmation /\ DirectLookupHeard) =>
          /\ BagCardinality(fetches') = BagCardinality(fetches) + 1
          /\ ~isAwaitingConfirmation']_vars

Settled29(p) == p.state \in {"resolved", "rejected"}

\* Once settled the promise keeps its outcome until the next lookup.
SettlesOnce ==
    (Settled29(promise)
        /\ BagCardinality(fetches') <= BagCardinality(fetches))
            => promise' = promise

\* The timeout callback leaves the promise settled.
SettledByTimeout ==
    (processTimeout /\ ~processTimeout') => Settled29(promise')

\* A rejection reaches fetchTwitterProfile as null, which clears the
\* display flag and keeps the chunks and the index.
FailureBecomesNull ==
    (promise.state = "rejected"
        /\ BagCardinality(fetches') < BagCardinality(fetches))
            => /\ event'.type = "fetch" /\ event'.name = "no profile"
               /\ ~isDisplayingTwitterInfo'
               /\ UNCHANGED <<twitterChunks, currentChunkIndex>>

\* C29: every failure of the external fetch (script missing, spawn error,
\* non-zero exit code, 120 s timeout) becomes a value: runPythonAgent's
\* promise settles exactly once and always settles, at the latest when the
\* timeout fires; getProfileInfo always resolves, to null on a failure; and
\* fetchTwitterProfile then sets isDisplayingTwitterInfo to false and leaves
\* twitterChunks and currentChunkIndex unchanged.
C29_FetchFailureBecomesNull ==
    /\ [][SettlesOnce]_vars
    /\ [][SettledByTimeout]_vars
    /\ (promise.state = "pending") ~> Settled29(promise)
    /\ (fetches # EmptyBag) ~> (fetches = EmptyBag)
    /\ [][FailureBecomesNull]_vars

\* The python process timed out and the lookup was answered with null.
C29_Witness ==
    /\ promise = [state |-> "rejected", reason |-> "timeout"]
    /\ event.type = "fetch" /\ event.name = "no profile"
    /\ ~isDisplayingTwitterInfo
    /\ fetches = EmptyBag

\* C30: whenever auto-advance is running the profile is on display, so that
\* a final 'pause' or 'stop' reaches the pager and stops it.
C30_AutoAdvanceOnlyWhileDisplaying ==
    isAutoAdvancing => isDisplayingTwitterInfo

\* An advance set before the last stop is still pending.
StaleAdvancePending(b) ==
    \E t \in BagToSet(b) : t.kind = "advance" /\ t.stale

\* 'pause' keeps the index and the chunks; 'resume' turns both flags on,
\* displays the chunk at the index of the pause first, and leaves no
\* advance pending that was set before the resume.
PauseThenResume ==
    /\ Said(event', "pause") =>
            UNCHANGED <<currentChunkIndex, twitterChunks>>
    /\ Said(event', "resume") =>
            /\ isDisplayingTwitterInfo' /\ isAutoAdvancing'
            /\ UNCHANGED <<currentChunkIndex, twitterChunks>>
            /\ ChunksShown(out') # <<>>
            /\ ChunksShown(out')[1].index = currentChunkIndex
            /\ ~StaleAdvancePending(timers')

\* C31: pause followed by resume continues from the same place, and the
\* next advance after the resume is the one the resume scheduled, a full
\* pacing delay later and not earlier.
C31_ResumeContinuesFromPause == [][PauseThenResume]_vars

\* A 'yes' starts the fetch of the username that was pending.
ConfirmedFetch ==
    Said(event', "confirm yes") =>
        /\ pendingUsername # Null
        /\ fetches' = fetches (+) SetToBag({[session  |-> event'.session,
                                             username |-> pendingUsername[1]]})

\* C32: in every reachable state isAwaitingConfirmation holds exactly when
\* pendingUsername is not null, and a fetch started by a 'yes' is for the
\* username pending at that moment.
C32_PendingNameIffAwaiting ==
    /\ [](isAwaitingConfirmation <=> pendingUsername # Null)
    /\ [][ConfirmedFetch]_vars

\* The lookup of the second name was confirmed and is in flight.
C32_Witness ==
    /\ Said(event, "confirm yes")
    /\ ~isAwaitingConfirmation
    /\ pendingUsername = Null
    /\ \E f \in BagToSet(fetches) : f.username = <<"a", "l">>

ConfirmPending(b) == \E t \in BagToSet(b) : t.kind = "confirm"

\* The timeout of a request that was replaced has no effect when it fires.
ReplacedTimeoutIsNoOp ==
    (event'.type = "timer" /\ event'.name = "confirm" /\ event'.stale) =>
        UNCHANGED <<isAwaitingConfirmation, pendingUsername>>

\* C33: a confirmation timeout armed for an earlier request never cancels a
\* later one: once a request is answered or cancelled its timer is cleared,
\* and the timer of a request that was replaced has no effect when it
\* fires.
C33_OldTimeoutNeverCancels ==
    /\ [](ConfirmPending(timers) => isAwaitingConfirmation)
    /\ [][ReplacedTimeoutIsNoOp]_vars

\* C34: the app does not stay in the awaiting-confirmation state forever:
\* whenever isAwaitingConfirmation is true it becomes false again, with
\* pendingUsername null, by an answer or by the 15 s timeout, whatever the
\* user says in the meantime.
C34_ConfirmationEnds ==
    isAwaitingConfirmation ~>
        (~isAwaitingConfirmation /\ pendingUsername = Null)

\* The timeout has ended a confirmation and said so.
C34_Witness ==
    /\ event.type = "timer" /\ event.name = "confirm"
    /\ out # <<>>
    /\ ~isAwaitingConfirmation
    /\ pendingUsername = Null

\* A final transcription without 'yes', 'correct', 'right' or 'confirm'
\* arrives.
OtherAnswerHeard ==
    \E sess \in Sessions,
       u \in {v \in VoiceCommands :
                Heard[v].has \cap {"yes", "correct", "right", "confirm"}
                    = {}} :
        Transcription(sess, u, TRUE, VoiceLimits)

\* While awaiting confirmation a final transcription leaves the pager alone
\* and starts a fetch only if it is a 'yes'.
ConsumedByConfirmation ==
    /\ (/\ isAwaitingConfirmation
        /\ event'.type = "transcription"
        /\ event'.name # "partial") =>
            UNCHANGED <<twitterChunks, currentChunkIndex, isAutoAdvancing,
                        readingSpeed>>
    /\ (isAwaitingConfirmation /\ OtherAnswerHeard) => fetches' = fetches

\* A partial transcription changes neither the pager nor the confirmation.
PartialChangesNothing ==
    (event'.type = "transcription" /\ event'.name = "partial") =>
        UNCHANGED <<isDisplayingTwitterInfo, twitterChunks,
                    currentChunkIndex, autoAdvanceTimer, isAutoAdvancing,
                    readingSpeed, overlapTime, pendingUsername,
                    isAwaitingConfirmation, confirmationTimeout, timers,
                    fetches>>

\* C35: while awaiting confirmation every final transcription is consumed
\* by the confirmation flow: it never modifies twitterChunks,
\* currentChunkIndex, isAutoAdvancing or readingSpeed and starts a fetch
\* only for a 'yes'-type answer; a partial transcription never modifies
\* pager or confirmation state in any mode.
C35_ConfirmationConsumesInput ==
    /\ [][ConsumedByConfirmation]_vars
    /\ [][PartialChangesNothing]_vars

\* A pager command was taken as an unclear answer while the profile was
\* auto-advancing.
C35_Witness ==
    /\ Said(event, "confirm unclear")
    /\ isAwaitingConfirmation
    /\ isAutoAdvancing
    /\ AdvancePending(timers)
    /\ Len(twitterChunks) >= 2

\* C36: in every reachable state the pacing delay readingSpeed - overlapTime
\* is strictly positive, 3200 ms initially and at least 100 ms after any
\* speed adjustments, and no advance is scheduled with a zero or negative
\* delay.
C36_PacingDelayPositive ==
    /\ readingSpeed - overlapTime >= 100
    /\ event.type = "none" => readingSpeed - overlapTime = 3200
    /\ \A t \in BagToSet(timers) : t.kind = "advance" => t.delay > 0

\* At the fastest speed an advance is pending with the smallest delay.
C36_Witness ==
    /\ readingSpeed = MinSpeed
    /\ isAutoAdvancing
    /\ \E t \in BagToSet(timers) : t.kind = "advance" /\ t.delay = 100

====
